---- MODULE Spec2Model ----
(***************************************************************************)
(* Player Rating Engine of nfl-data-loader.                                *)
(*                                                                         *)
(*   Spec        PlayerRatingComponent.run_pipeline (the orchestrator)     *)
(*               over the player_id -> CareerPlayerRating registry.        *)
(*   SpecCareer  CareerPlayerRating driven by a caller: appends to         *)
(*               weekly_player_ratings, current_rating, and the pre-rating *)
(*               selection of run_pipeline (rating.py line 220).           *)
(*   SpecApply   WeeklyPlayerRating.apply on bounded inputs.               *)
(*   SpecAdjust  WeeklyPlayerRating._apply_adjustments on given deltas.    *)
(*   SpecMatrix  the quarterback rating matrix: adjust_metrics and the     *)
(*               attribute deltas on small cohorts.                        *)
(*   SpecPreseason  the week-1 adjustment of player.py.                    *)
(*   SpecImpute  impute_base_player_ratings of rating.py and player.py.    *)
(*                                                                         *)
(* Attribute values are rating points (integers).  Deltas are in           *)
(* hundredths of a point, so that delta * (1 - decay) stays integral.      *)
(***************************************************************************)
EXTENDS Integers, Sequences, FiniteSets, TLC

VARIABLES
    load_seasons,            \* PlayerRatingComponent.load_seasons
    career_player_ratings,   \* player_id -> CareerPlayerRating
    player_states,           \* rows of db['player_states'] read so far
    read_weeks,              \* the (season, week) cells of that table read so far
    pc,                      \* position of run_pipeline
    raised,                  \* where the exception that ended the run came from
    season_idx,              \* index of the season loop in load_seasons
    week,                    \* the week loop variable
    player_id_list,          \* quarterbacks with a row in (season, week)
    init_players_list,
    regress_players_list,
    pre_rating,              \* player_id -> the pre_rating of rating.py line 220
    processed,               \* history: the (season, week) pairs of this run
    init_count,              \* history: init_players assignments per player
    regress_invoked,         \* history: players handed to the week-1 adjustment
    last_active,             \* history: the last (season, week) updated per player
    observed,                \* SpecCareer: what the caller last read
    last_appended,           \* SpecCareer: history, the entry appended last
    wpr,                     \* SpecApply: the WeeklyPlayerRating object
    outcome,                 \* SpecApply: "new" | "returned" | the error raised
    adj_arg,                 \* SpecAdjust: the argument of _apply_adjustments
    rating_matrix,           \* SpecMatrix: the rating matrix object
    rating_matrix_log,       \* SpecMatrix: history, the inputs and the calls
    players_df,              \* SpecPreseason, SpecImpute: the frame passed in
    returned_df,             \* SpecPreseason, SpecImpute: what the call gave
    off_weekly_player_stats, \* SpecInit: rows of db['off_weekly_player_stats']
    init_frames              \* SpecInit: the frames of one init_players call

vars == <<load_seasons, career_player_ratings, player_states, read_weeks, pc,
          raised, season_idx, week, player_id_list, init_players_list,
          regress_players_list, pre_rating, processed, init_count,
          regress_invoked, last_active, observed, last_appended, wpr, outcome,
          adj_arg, rating_matrix, rating_matrix_log, players_df,
          returned_df, off_weekly_player_stats, init_frames>>

orchestrator_vars == <<load_seasons, player_states, read_weeks, pc, raised,
                       season_idx, week, player_id_list, init_players_list,
                       regress_players_list, processed, init_count,
                       regress_invoked, last_active>>

career_vars == <<observed, last_appended>>

apply_vars == <<wpr, outcome, adj_arg>>

matrix_vars == <<rating_matrix, rating_matrix_log>>

transform_vars == <<players_df, returned_df>>

init_vars == <<off_weekly_player_stats, init_frames>>

-----------------------------------------------------------------------------
(* Bounds of the model. *)

NumPlayers == 2

\* Longest load_seasons list.
MaxLoadSeasons == 2

\* Longest weekly_player_ratings list a caller builds in SpecCareer.
MaxTimeline == 3

Players == 1..NumPlayers

\* The seasons a caller may list: one on each side of the 2021 schedule change.
SeasonPool == {2020, 2021}

None == [none |-> TRUE]

-----------------------------------------------------------------------------
(* PlayerRatingState *)

\* The Madden-style attributes: player_rating_state.py lines 19-48.
Attributes ==
    {"agility", "acceleration", "speed", "stamina", "strength", "toughness",
     "injury", "awareness", "jumping", "trucking", "carrying",
     "ballcarriervision", "stiffarm", "spinmove", "jukemove", "throwpower",
     "throwaccuracyshort", "throwaccuracymid", "throwaccuracydeep",
     "playaction", "throwonrun", "catching", "shortrouterunning",
     "midrouterunning", "deeprouterunning", "spectacularcatch",
     "catchintraffic", "release", "runblocking", "passblocking"}

\* The other dataclass fields: player_rating_state.py lines 12-18.
InfoFields ==
    {"player_id", "madden_id", "years_exp", "is_rookie", "rating",
     "last_season_av", "baseoverallrating"}

RatingFields == InfoFields \cup Attributes

\* row.get(col, default) of a pandas row.
RowGet(row, col, default) == IF col \in DOMAIN row THEN row[col] ELSE default

\* The default literals of init_players (rating.py lines 304-349).
InitDefault(f) ==
    CASE f = "madden_id" -> ""
      [] f = "years_exp" -> 0
      [] f = "is_rookie" -> FALSE
      [] f = "rating" -> 70
      [] f = "last_season_av" -> 4
      [] f = "baseoverallrating" -> 70
      [] f \in {"agility", "acceleration", "speed", "stamina", "strength",
                "toughness", "injury", "awareness", "jumping"} -> 70
      [] f \in {"trucking", "carrying", "ballcarriervision", "stiffarm",
                "spinmove", "jukemove"} -> 0
      [] f \in {"throwpower", "throwaccuracyshort", "throwaccuracymid",
                "throwaccuracydeep", "playaction", "throwonrun"} -> 70
      [] OTHER -> 0

\* PlayerRatingState(player_id=row.player_id, madden_id=row.get(...), ...):
\* every value is taken from the imputed row as it is; nothing is clipped.
InitPlayerRatingState(player_id, row) ==
    [f \in RatingFields |->
        IF f = "player_id" THEN player_id ELSE RowGet(row, f, InitDefault(f))]

\* The rows init_position_group can return for a player.  A Madden column is
\* either observed or filled by IterativeImputer, which is built without
\* min_value / max_value (rating.py lines 461-463): an imputed value is an
\* unbounded regression estimate and can leave [0,99] on either side.
RowColumns == {"awareness"}

RowValues == {-2, 64, 104}

ImputedRows == {[c \in {col} |-> v] : col \in RowColumns, v \in RowValues}

-----------------------------------------------------------------------------
(* CareerPlayerRating *)

\* CareerPlayerRating(..., init_season=None, init_week=None,
\* weekly_player_ratings=[], ...) of init_career_player_rating_map; the
\* init_player_rating_state is left at its dataclass default, None.
NewCareerPlayerRating(player_id) ==
    [player_id |-> player_id,
     weekly_player_ratings |-> <<>>,
     init_player_rating_state |-> None,
     init_season |-> None,
     init_week |-> None]

\* A mutant of CurrentRating: the oldest entry instead of the newest.
CurrentRatingFirst(career) ==
    IF Len(career.weekly_player_ratings) = 0
    THEN None
    ELSE career.weekly_player_ratings[1]

\* The current_rating property.
CurrentRating(career) ==
    IF Len(career.weekly_player_ratings) = 0
    THEN None
    ELSE career.weekly_player_ratings[Len(career.weekly_player_ratings)]

NeedsInitialization(career) == Len(career.weekly_player_ratings) = 0

\* rating.py line 220: the pre-rating the orchestrator hands to the update.
PreRatingOf(career) ==
    IF CurrentRating(career) = None
    THEN career.init_player_rating_state
    ELSE CurrentRating(career).pre_rating

-----------------------------------------------------------------------------
(* The orchestrator: PlayerRatingComponent.run_pipeline *)

\* range(1, 18 + 1 + 4 if season >= 2021 else 17 + 1 + 4): weeks 1..W.
SeasonChange == 2021

LastWeek(season) ==
    IF season >= SeasonChange THEN 18 + 1 + 4 - 1 ELSE 17 + 1 + 4 - 1

Season == load_seasons[season_idx]

\* The quarterbacks with a player_states row in (season, week).
ActiveIn(s, w) == {p \in Players : <<p, s, w>> \in player_states}

\* rating.py lines 198-203.
Classification(career, w) ==
    IF career.init_player_rating_state = None THEN "init"
    ELSE IF w = 1 THEN "regress"
    ELSE "continue"

\* QuarterbackPositionGroupRatingMatrix.get_schema_columns_for_metrics reads
\* cls.validation_requirement, a dataclass field with a default_factory, which
\* is no attribute of the class, and adds two dict_keys views: it raises for
\* every call.
GetSchemaColumnsForMetrics == [raised |-> TRUE, error |-> "AttributeError"]

\* position_based_adjustment_matrix: the schema columns are fetched first, so
\* the call raises before a matrix is built.
PositionBasedAdjustmentMatrix(position_group) ==
    IF position_group = "quarterback"
    THEN (IF GetSchemaColumnsForMetrics.raised
          THEN GetSchemaColumnsForMetrics
          ELSE [raised |-> FALSE, error |-> ""])
    ELSE [raised |-> TRUE, error |-> "UnboundLocalError"]

\* A call of run_pipeline on the component.  The registry is built once, by
\* the constructor, and a later call finds it as the previous call left it.
RunPipeline ==
    /\ pc \in {"idle", "done", "aborted"}
    /\ processed' = <<>>
    /\ season_idx' = 1
    /\ week' = 1
    /\ pc' = IF Len(load_seasons) = 0 THEN "done" ELSE "classify"
    /\ raised' = ""
    /\ player_id_list' = {}
    /\ init_players_list' = {}
    /\ regress_players_list' = {}
    /\ regress_invoked' = {}
    /\ UNCHANGED <<load_seasons, career_player_ratings, player_states,
                   read_weeks, pre_rating, init_count, last_active>>
    /\ UNCHANGED <<career_vars, apply_vars, matrix_vars,
                 transform_vars, init_vars>>

\* Lines 189-203: the rows of (season, week) and the three-way partition.
\* db['player_states'] is loaded once by extract(): a cell read before keeps
\* its rows, a cell read for the first time may hold any rows.
Classify ==
    /\ pc = "classify"
    /\ \E act \in SUBSET Players :
        /\ <<Season, week>> \in read_weeks => act = ActiveIn(Season, week)
        /\ player_states' = player_states \cup {<<p, Season, week>> : p \in act}
        /\ read_weeks' = read_weeks \cup {<<Season, week>>}
        /\ player_id_list' = act
        /\ init_players_list' =
             {p \in act : Classification(career_player_ratings[p], week) = "init"}
        /\ regress_players_list' =
             {p \in act : Classification(career_player_ratings[p], week) = "regress"}
    /\ processed' = Append(processed, <<Season, week>>)
    /\ regress_invoked' = {}
    /\ pc' = "init"
    /\ UNCHANGED <<load_seasons, career_player_ratings, raised, season_idx,
                   week, pre_rating, init_count, last_active>>
    /\ UNCHANGED <<career_vars, apply_vars, matrix_vars,
                 transform_vars, init_vars>>

\* rating.py lines 352-354.
InitPlayersAssign(career, state, s, w) ==
    [career EXCEPT !.init_player_rating_state = state,
                   !.init_season = s,
                   !.init_week = w]

\* Lines 206-207, init_players (lines 263-354) and init_position_group
\* (lines 356-387).  init_position_group
\*   - reads the module global player_rating_component, which is bound only
\*     when rating.py runs as a script: imported, the call raises NameError;
\*   - raises ValueError in pd.concat when impute_group has no row;
\*   - rebinds its parameter season in "for season in
\*     impute_group.season.unique()" and then keeps the rows of p_group whose
\*     season is the rebound one: a listed player is in p_group only if the
\*     tables hold a row of his for that season and this week.
\* So the call raises, or assigns a state to those listed players that p_group
\* holds, which the rows of other weeks and seasons decide: any subset.
InitPlayers ==
    /\ pc = "init"
    /\ IF init_players_list = {}
       THEN /\ pc' = "regress"
            /\ UNCHANGED <<career_player_ratings, init_count, raised>>
       ELSE \/ /\ pc' = "aborted"
               /\ raised' = "init_position_group"
               /\ UNCHANGED <<career_player_ratings, init_count>>
            \/ \E p_group \in SUBSET init_players_list :
               \E rows \in [p_group -> ImputedRows] :
                 /\ career_player_ratings' =
                      [p \in Players |->
                         IF p \in p_group
                         THEN InitPlayersAssign(career_player_ratings[p],
                                  InitPlayerRatingState(p, rows[p]), Season, week)
                         ELSE career_player_ratings[p]]
                 /\ init_count' =
                      [p \in Players |->
                         IF p \in p_group
                         THEN init_count[p] + 1 ELSE init_count[p]]
                 /\ pc' = "regress"
                 /\ UNCHANGED raised
    /\ UNCHANGED <<load_seasons, player_states, read_weeks, season_idx, week,
                   player_id_list, init_players_list, regress_players_list,
                   pre_rating, processed, regress_invoked, last_active>>
    /\ UNCHANGED <<career_vars, apply_vars, matrix_vars,
                 transform_vars, init_vars>>

\* Lines 209-212: "if len(regress_players_list) > 0: pass"; the call of
\* regress_players is commented out, so no player is handed on.
RegressPlayers ==
    /\ pc = "regress"
    /\ pc' = "update"
    /\ UNCHANGED <<load_seasons, career_player_ratings, player_states,
                   read_weeks, raised, season_idx, week, player_id_list,
                   init_players_list, regress_players_list, pre_rating,
                   processed, init_count, regress_invoked, last_active>>
    /\ UNCHANGED <<career_vars, apply_vars, matrix_vars,
                 transform_vars, init_vars>>

\* The loop headers of lines 186-187: the next week, the next season, the end.
Advance ==
    IF week < LastWeek(Season)
    THEN /\ week' = week + 1
         /\ pc' = "classify"
         /\ UNCHANGED season_idx
    ELSE IF season_idx < Len(load_seasons)
    THEN /\ season_idx' = season_idx + 1
         /\ week' = 1
         /\ pc' = "classify"
    ELSE /\ pc' = "done"
         /\ UNCHANGED <<season_idx, week>>

\* Lines 214-224.  The rows are all quarterbacks, so the position-group loop
\* runs once when there is a row and not at all otherwise.  Its body collects
\* the pre-ratings (pre_rating.__dict__ raises AttributeError for a player
\* init_players left without a state) and calls
\* position_based_adjustment_matrix; no try block surrounds either, and the
\* code that would build and append a WeeklyPlayerRating (lines 225-242) is
\* inside a string literal.
UpdateRatings ==
    /\ pc = "update"
    /\ IF player_id_list = {}
       THEN /\ Advance
            /\ UNCHANGED <<pre_rating, last_active, raised>>
       ELSE /\ pre_rating' =
                 [p \in Players |->
                    IF p \in player_id_list
                    THEN PreRatingOf(career_player_ratings[p])
                    ELSE pre_rating[p]]
            /\ IF \E p \in player_id_list :
                    PreRatingOf(career_player_ratings[p]) = None
               THEN /\ pc' = "aborted"
                    /\ raised' = "run_pipeline"
                    /\ UNCHANGED <<season_idx, week, last_active>>
               ELSE /\ last_active' =
                         [p \in Players |->
                            IF p \in player_id_list
                            THEN <<Season, week>> ELSE last_active[p]]
                    /\ IF PositionBasedAdjustmentMatrix("quarterback").raised
                       THEN /\ pc' = "aborted"
                            /\ raised' = "position_based_adjustment_matrix"
                            /\ UNCHANGED <<season_idx, week>>
                       ELSE /\ Advance
                            /\ UNCHANGED raised
    /\ UNCHANGED <<load_seasons, career_player_ratings, player_states,
                   read_weeks, player_id_list, init_players_list,
                   regress_players_list, processed, init_count,
                   regress_invoked>>
    /\ UNCHANGED <<career_vars, apply_vars, matrix_vars,
                 transform_vars, init_vars>>

\* Every list of at most MaxLoadSeasons seasons: the constructor stores the
\* caller's list as it is, in the caller's order, duplicates included.
LoadSeasonsLists ==
    UNION {[1..n -> SeasonPool] : n \in 0..MaxLoadSeasons}

Init ==
    /\ load_seasons \in LoadSeasonsLists
    /\ career_player_ratings = [p \in Players |-> NewCareerPlayerRating(p)]
    /\ player_states = {}
    /\ read_weeks = {}
    /\ pc = "idle"
    /\ raised = ""
    /\ season_idx = 1
    /\ week = 1
    /\ player_id_list = {}
    /\ init_players_list = {}
    /\ regress_players_list = {}
    /\ pre_rating = [p \in Players |-> None]
    /\ processed = <<>>
    /\ init_count = [p \in Players |-> 0]
    /\ regress_invoked = {}
    /\ last_active = [p \in Players |-> None]
    /\ observed = None
    /\ last_appended = [p \in Players |-> None]
    /\ wpr = None
    /\ outcome = "new"
    /\ adj_arg = None
    /\ rating_matrix = None
    /\ rating_matrix_log = None
    /\ players_df = None
    /\ returned_df = None
    /\ off_weekly_player_stats = {}
    /\ init_frames = None

Next ==
    \/ RunPipeline
    \/ Classify
    \/ InitPlayers
    \/ RegressPlayers
    \/ UpdateRatings

Spec == Init /\ [][Next]_vars

-----------------------------------------------------------------------------
(* WeeklyPlayerRating: the data a timeline entry carries *)

\* The dataclass constructor.  Of the PlayerState fields only those the rating
\* code reads are kept (player_id, season, week, position); post_rating
\* defaults to None.
WeeklyPlayerRating(player_id, s, w, position, pre, metrics, matrix) ==
    [player_id |-> player_id,
     season |-> s,
     week |-> w,
     position |-> position,
     pre_rating |-> pre,
     performance_metrics |-> metrics,
     rating_matrix |-> matrix,
     post_rating |-> None]

EmptyMetrics == [m \in {} |-> 0]

\* Rating states of a player that differ in one attribute.
SampleState(player_id, v) ==
    InitPlayerRatingState(player_id, [c \in {"awareness"} |-> v])

-----------------------------------------------------------------------------
(* SpecCareer: a caller of CareerPlayerRating *)

\* The two careers the caller works on.
CareerPlayers == {1, 2}

\* The entries a caller appends: any (season, week) key, in any order (the
\* class enforces none), a pre-rating, and a post-rating that is still None
\* or already computed.
TimelineEntries(p) ==
    {[WeeklyPlayerRating(p, 2020, w, "QB", SampleState(p, 64), EmptyMetrics, None)
        EXCEPT !.post_rating = post] :
       w \in {1, 2},
       post \in {None, SampleState(p, 104)}}

RECURSIVE TotalEntries(_)
TotalEntries(ps) ==
    IF ps = {} THEN 0
    ELSE LET p == CHOOSE q \in ps : TRUE
         IN  Len(career_player_ratings[p].weekly_player_ratings)
               + TotalEntries(ps \ {p})

\* career.weekly_player_ratings.append(entry): the list is a public field of
\* the dataclass.
AppendWeeklyRating ==
    /\ pc = "caller"
    /\ TotalEntries(CareerPlayers) < MaxTimeline
    /\ \E p \in CareerPlayers : \E entry \in TimelineEntries(p) :
        /\ career_player_ratings' =
             [career_player_ratings EXCEPT
                ![p].weekly_player_ratings = Append(@, entry)]
        /\ last_appended' = [last_appended EXCEPT ![p] = entry]
    /\ UNCHANGED <<observed, pre_rating>>
    /\ UNCHANGED <<orchestrator_vars, apply_vars, matrix_vars,
                 transform_vars, init_vars>>

\* career.current_rating, read by the caller.
ReadCurrentRating ==
    /\ pc = "caller"
    /\ \E p \in CareerPlayers :
        observed' =
          [kind |-> "current_rating",
           player_id |-> p,
           result |-> CurrentRating(career_player_ratings[p]),
           entries |-> Len(career_player_ratings[p].weekly_player_ratings),
           newest |-> last_appended[p]]
    /\ UNCHANGED <<career_player_ratings, last_appended, pre_rating>>
    /\ UNCHANGED <<orchestrator_vars, apply_vars, matrix_vars,
                 transform_vars, init_vars>>

\* The expression of rating.py line 220 on a career.
SelectPreRating ==
    /\ pc = "caller"
    /\ \E p \in CareerPlayers :
        observed' =
          [kind |-> "pre_rating",
           player_id |-> p,
           result |-> PreRatingOf(career_player_ratings[p]),
           entries |-> Len(career_player_ratings[p].weekly_player_ratings),
           newest |-> last_appended[p]]
    /\ UNCHANGED <<career_player_ratings, last_appended, pre_rating>>
    /\ UNCHANGED <<orchestrator_vars, apply_vars, matrix_vars,
                 transform_vars, init_vars>>

\* Each of the two careers is new, or was initialized by init_players in
\* week 1 of 2020.
InitCareer ==
    /\ load_seasons = <<2020>>
    /\ \E initialized \in SUBSET CareerPlayers :
         career_player_ratings =
           [p \in Players |->
              IF p \in initialized
              THEN InitPlayersAssign(NewCareerPlayerRating(p),
                                     SampleState(p, 64), 2020, 1)
              ELSE NewCareerPlayerRating(p)]
    /\ player_states = {}
    /\ read_weeks = {}
    /\ pc = "caller"
    /\ raised = ""
    /\ season_idx = 1
    /\ week = 1
    /\ player_id_list = {}
    /\ init_players_list = {}
    /\ regress_players_list = {}
    /\ pre_rating = [p \in Players |-> None]
    /\ processed = <<>>
    /\ init_count = [p \in Players |-> 0]
    /\ regress_invoked = {}
    /\ last_active = [p \in Players |-> None]
    /\ observed = None
    /\ last_appended = [p \in Players |-> None]
    /\ wpr = None
    /\ outcome = "new"
    /\ adj_arg = None
    /\ rating_matrix = None
    /\ rating_matrix_log = None
    /\ players_df = None
    /\ returned_df = None
    /\ off_weekly_player_stats = {}
    /\ init_frames = None

NextCareer ==
    \/ AppendWeeklyRating
    \/ ReadCurrentRating
    \/ SelectPreRating

SpecCareer == InitCareer /\ [][NextCareer]_vars

-----------------------------------------------------------------------------
(* WeeklyPlayerRating.apply *)

\* ATTRIBUTE_BUCKET, weekly_player_rating.py lines 10-21.
AttributeBucket ==
    [physical |-> {"speed", "acceleration", "agility", "strength", "jumping",
                   "stamina"},
     technical |-> {"throwpower", "throwaccuracyshort", "throwaccuracymid",
                    "throwaccuracydeep", "ballcarriervision", "trucking",
                    "carrying", "stiffarm", "spinmove", "jukemove", "catching",
                    "spectacularcatch", "catchintraffic", "release",
                    "shortrouterunning", "midrouterunning", "deeprouterunning"},
     mental |-> {"awareness", "toughness", "injury"}]

\* DECAY_BY_BUCKET, in hundredths: 0.95, 0.85, 0.90.
DecayByBucket == [physical |-> 95, technical |-> 85, mental |-> 90]

\* next((b for b, s in ATTRIBUTE_BUCKET.items() if attr in s), "technical")
BucketOf(attr) ==
    IF attr \in AttributeBucket.physical THEN "physical"
    ELSE IF attr \in AttributeBucket.technical THEN "technical"
    ELSE IF attr \in AttributeBucket.mental THEN "mental"
    ELSE "technical"

\* UNIVERSAL_METRIC_MAP, lines 29-33.
UniversalMetricMap ==
    [epa |-> <<"awareness">>,
     total_plays |-> <<"stamina">>,
     total_turnovers |-> <<"carrying", "awareness">>]

ReceiverMetricMap ==
    [yards_per_route |-> <<"shortrouterunning", "midrouterunning",
                           "deeprouterunning">>,
     catch_percentage |-> <<"catching", "catchintraffic">>,
     target_share |-> <<"release">>,
     receiving_yards_after_catch |-> <<"jukemove", "spectacularcatch">>]

\* POSITION_METRIC_MAP.get(self.position, {}), lines 35-61 and 109.
PositionMetricMap(position) ==
    CASE position = "QB" ->
           [completion_percentage |-> <<"throwaccuracyshort", "throwaccuracymid",
                                        "throwaccuracydeep">>,
            yards_per_pass_attempt |-> <<"throwpower">>,
            interceptions |-> <<"awareness">>,
            sack_rate |-> <<"awareness">>,
            passing_epa |-> <<"overallrating">>]
      [] position \in {"WR", "TE"} -> ReceiverMetricMap
      [] position = "RB" ->
           [yards_per_rush_attempt |-> <<"ballcarriervision", "speed",
                                         "acceleration">>,
            broken_tackles |-> <<"trucking", "stiffarm", "jukemove", "spinmove">>,
            rushing_fumbles_lost |-> <<"carrying">>,
            rushing_epa |-> <<"overallrating">>]
      [] OTHER -> [m \in {} |-> <<>>]

\* _position_weights, in hundredths (lines 135-171).
PositionWeights(position) ==
    CASE position = "QB" ->
           [throwpower |-> 15, throwaccuracyshort |-> 15, throwaccuracymid |-> 15,
            throwaccuracydeep |-> 15, awareness |-> 15, playaction |-> 10,
            throwonrun |-> 10, stamina |-> 5]
      [] position \in {"WR", "TE"} ->
           [catching |-> 20, shortrouterunning |-> 15, midrouterunning |-> 15,
            deeprouterunning |-> 15, spectacularcatch |-> 10,
            catchintraffic |-> 10, release |-> 10, speed |-> 5]
      [] position = "RB" ->
           [ballcarriervision |-> 20, speed |-> 15, acceleration |-> 15,
            agility |-> 15, trucking |-> 10, carrying |-> 10, stiffarm |-> 5,
            jukemove |-> 5, spinmove |-> 5]
      [] OTHER -> [a \in {} |-> 0]

MAX_WEEKLY_ADJ == 3

Abs(n) == IF n < 0 THEN -n ELSE n

Sign(n) == IF n > 0 THEN 1 ELSE IF n < 0 THEN -1 ELSE 0

Min(a, b) == IF a <= b THEN a ELSE b

\* np.clip(x, lo, hi)
Clip(x, lo, hi) == IF x < lo THEN lo ELSE IF x > hi THEN hi ELSE x

\* int(x) of a quotient: truncation toward zero.
TruncDiv(n, d) == IF n >= 0 THEN n \div d ELSE -((-n) \div d)

Raised(error) == [raised |-> TRUE, error |-> error]

Returned(value) == [raised |-> FALSE, value |-> value]

\* _metric_factor (lines 87-93).  With a value and a matrix present it reads
\* PlayerPositionGroupRatingMatrix.NEGATIVE_METRICS, which the class does not
\* define.
MetricFactor(w, metric) ==
    IF metric \notin DOMAIN w.performance_metrics \/ w.rating_matrix = None
    THEN Returned(0)
    ELSE Raised("AttributeError")

\* Line 96: self.rating_matrix.calculate_rating() if self.rating_matrix else
\* 0.0.  No matrix class defines calculate_rating.
PerfScore(w) ==
    IF w.rating_matrix # None THEN Raised("AttributeError") ELSE Returned(0)

\* np.sign(perf_score) * min(MAX_WEEKLY_ADJ, abs(perf_score) * 10), both in
\* hundredths.
BaseAdj(perf_score) ==
    Sign(perf_score) * Min(MAX_WEEKLY_ADJ * 100, Abs(perf_score) * 10)

\* The metrics of a map that the player has a value for.
PresentMetrics(w, map) == {m \in DOMAIN map : m \in DOMAIN w.performance_metrics}

\* The attributes the present metrics of a map lead to.
Targets(w, map) ==
    {a \in Attributes \cup {"overallrating"} :
        \E m \in PresentMetrics(w, map) : \E i \in DOMAIN map[m] : map[m][i] = a}

RECURSIVE SumDeltas(_, _, _, _, _)
\* adj[a] = adj.get(a, 0) + delta over the metrics ms of a map that list a.
SumDeltas(w, map, ms, a, base_adj) ==
    IF ms = {} THEN 0
    ELSE LET m == CHOOSE x \in ms : TRUE
             times == Cardinality({i \in DOMAIN map[m] : map[m][i] = a})
         IN  times * base_adj * MetricFactor(w, m).value
               + SumDeltas(w, map, ms \ {m}, a, base_adj)

\* _calculate_adjustments (lines 95-116).  With a matrix it calls
\* rating_matrix.calculate_rating(), which no matrix class defines; without
\* one the performance score is 0.0.
CalculateAdjustments(w) ==
    IF PerfScore(w).raised
    THEN PerfScore(w)
    ELSE LET base_adj == BaseAdj(PerfScore(w).value)
             pos_map == PositionMetricMap(w.position)
             keys == Targets(w, UniversalMetricMap) \cup Targets(w, pos_map)
         IN  Returned(
               [a \in keys |->
                  SumDeltas(w, UniversalMetricMap,
                            PresentMetrics(w, UniversalMetricMap), a, base_adj)
                  + SumDeltas(w, pos_map, PresentMetrics(w, pos_map), a, base_adj)])

\* 1 - decay is evaluated in binary floating point: 1 - 0.95 is
\* 0.05 + 0.4 * 2^-53, 1 - 0.85 is 0.15 + 0.2 * 2^-53 and 1 - 0.90 is
\* 0.10 - 0.2 * 2^-53.  The error of the factor, in fifths of 2^-53, signed.
FloatError == [physical |-> 2, technical |-> 1, mental |-> -1]

\* The least power of two that is at least n (n >= 1).
RECURSIVE Pow2Ceil(_, _)
Pow2Ceil(n, p) == IF p >= n THEN p ELSE Pow2Ceil(n, 2 * p)

\* cur + delta * (1 - decay) as the code computes it, when the exact sum (in
\* ten-thousandths) is a whole number N of points: the error of the product,
\* |delta| * FloatError, pulls the sum below N when it is directed downwards,
\* and the addition keeps it when it exceeds half the spacing of the floating
\* point numbers below N, which is Pow2Ceil(N) * 2^-53.  With delta in
\* hundredths and the error in fifths of 2^-53 that is
\* |delta| * |FloatError| / 500 > Pow2Ceil(N) / 2.  (The rounding of the
\* product itself is left out: it does not change the outcome for deltas
\* below 50 points, and the deltas drawn here are below.)
FloatBelow(sum, delta, attr) ==
    LET err == FloatError[BucketOf(attr)] * Sign(delta)
    IN  /\ sum > 0
        /\ sum % 10000 = 0
        /\ err < 0
        /\ Abs(delta) * Abs(err) > 250 * Pow2Ceil(sum \div 10000, 1)

\* int(np.clip(cur + delta * (1 - decay), 0, 99)): cur in points, delta in
\* hundredths, the sum in ten-thousandths of a point, cut to whole points.
NewValue(cur, delta, attr) ==
    LET decay == DecayByBucket[BucketOf(attr)]
        sum == cur * 10000 + delta * (100 - decay)
        clipped == Clip(sum, 0, 99 * 10000)
    IN  IF sum = clipped /\ FloatBelow(sum, delta, attr)
        THEN clipped \div 10000 - 1
        ELSE clipped \div 10000

RECURSIVE WeightedSum(_, _, _)
\* sum(new_vals.get(a, 0) * w for a, w in weights.items())
WeightedSum(new_vals, weights, as) ==
    IF as = {} THEN 0
    ELSE LET a == CHOOSE x \in as : TRUE
         IN  RowGet(new_vals, a, 0) * weights[a]
               + WeightedSum(new_vals, weights, as \ {a})

RECURSIVE SumWeights(_, _)
SumWeights(weights, as) ==
    IF as = {} THEN 0
    ELSE LET a == CHOOSE x \in as : TRUE
         IN  weights[a] + SumWeights(weights, as \ {a})

\* _apply_adjustments (lines 118-133).  getattr(self.pre_rating, attr) raises
\* for a key that is no field of PlayerRatingState; only the adjusted
\* attributes are clipped; with a weight table the key "overallrating" is
\* added to new_vals and PlayerRatingState(**new_vals) rejects it, the
\* dataclass having no such field.
ApplyAdjustments(w, adj) ==
    IF \E a \in DOMAIN adj : a \notin RatingFields
    THEN Raised("AttributeError")
    ELSE LET new_vals ==
               [f \in RatingFields |->
                  IF f \in DOMAIN adj
                  THEN NewValue(w.pre_rating[f], adj[f], f)
                  ELSE w.pre_rating[f]]
             weights == PositionWeights(w.position)
         IN  IF DOMAIN weights # {}
             THEN [raised |-> TRUE,
                   error |-> "TypeError",
                   overallrating |->
                      TruncDiv(WeightedSum(new_vals, weights, DOMAIN weights),
                               SumWeights(weights, DOMAIN weights))]
             ELSE Returned(new_vals)

\* apply (lines 82-84).
Apply ==
    /\ pc = "apply"
    /\ outcome = "new"
    /\ LET adjustments == CalculateAdjustments(wpr)
       IN  IF adjustments.raised
           THEN /\ outcome' = adjustments.error
                /\ UNCHANGED wpr
           ELSE LET result == ApplyAdjustments(wpr, adjustments.value)
                IN  IF result.raised
                    THEN /\ outcome' = result.error
                         /\ UNCHANGED wpr
                    ELSE /\ outcome' = "returned"
                         /\ wpr' = [wpr EXCEPT !.post_rating = result.value]
    /\ UNCHANGED <<career_player_ratings, pre_rating, adj_arg>>
    /\ UNCHANGED <<orchestrator_vars, career_vars, matrix_vars,
                 transform_vars, init_vars>>

\* "K" stands for the positions without a metric map and a weight table.
Positions == {"QB", "WR", "TE", "RB", "K"}

PerformanceMetricsChoices ==
    {EmptyMetrics,
     [m \in {"epa"} |-> 12],
     [m \in {"total_turnovers"} |-> 1],
     [m \in {"epa", "interceptions"} |-> 2],
     [m \in {"passing_epa"} |-> 5],
     [m \in {"catch_percentage"} |-> 61],
     [m \in {"broken_tackles", "rushing_epa"} |-> 3]}

\* A PlayerPositionGroupRatingMatrix instance, as far as apply looks at it.
SomeRatingMatrix == [position_group |-> "quarterback"]

\* The object as the constructor leaves it.  The pre-rating is a stored
\* rating state: whatever init_players stored, inside [0,99] or not.
InitApply ==
    /\ load_seasons = <<2020>>
    /\ career_player_ratings = [p \in Players |-> NewCareerPlayerRating(p)]
    /\ player_states = {}
    /\ read_weeks = {}
    /\ pc = "apply"
    /\ raised = ""
    /\ season_idx = 1
    /\ week = 1
    /\ player_id_list = {}
    /\ init_players_list = {}
    /\ regress_players_list = {}
    /\ pre_rating = [p \in Players |-> None]
    /\ processed = <<>>
    /\ init_count = [p \in Players |-> 0]
    /\ regress_invoked = {}
    /\ last_active = [p \in Players |-> None]
    /\ observed = None
    /\ last_appended = [p \in Players |-> None]
    /\ \E position \in Positions, v \in RowValues,
          metrics \in PerformanceMetricsChoices,
          matrix \in {None, SomeRatingMatrix} :
         wpr = WeeklyPlayerRating(1, 2020, 1, position, SampleState(1, v),
                                  metrics, matrix)
    /\ outcome = "new"
    /\ adj_arg = None
    /\ rating_matrix = None
    /\ rating_matrix_log = None
    /\ players_df = None
    /\ returned_df = None
    /\ off_weekly_player_stats = {}
    /\ init_frames = None

NextApply == Apply

SpecApply == InitApply /\ [][NextApply]_vars

-----------------------------------------------------------------------------
(* WeeklyPlayerRating._apply_adjustments on given adjustments *)

\* The value of awareness in the pre-rating.
AdjustPreValues == {1, 70, 99}

\* Raw deltas, in hundredths of a point.
AdjustDeltas == {-2000, -400, -200, 0, 200, 400, 1000}

\* A mental, a technical and a physical attribute, and one that is in no
\* bucket.
AdjustAttributes == {"awareness", "throwpower", "speed", "runblocking"}

\* The adj dictionaries: empty, one attribute, or the key "overallrating"
\* that the QB and RB metric maps lead to.
AdjChoices ==
    {[a \in {} |-> 0]}
      \cup {[a \in {attr} |-> d] : attr \in AdjustAttributes, d \in AdjustDeltas}
      \cup {[a \in {"overallrating"} |-> 200]}

InitAdjust ==
    /\ load_seasons = <<2020>>
    /\ career_player_ratings = [p \in Players |-> NewCareerPlayerRating(p)]
    /\ player_states = {}
    /\ read_weeks = {}
    /\ pc = "adjust"
    /\ raised = ""
    /\ season_idx = 1
    /\ week = 1
    /\ player_id_list = {}
    /\ init_players_list = {}
    /\ regress_players_list = {}
    /\ pre_rating = [p \in Players |-> None]
    /\ processed = <<>>
    /\ init_count = [p \in Players |-> 0]
    /\ regress_invoked = {}
    /\ last_active = [p \in Players |-> None]
    /\ observed = None
    /\ last_appended = [p \in Players |-> None]
    /\ \E position \in Positions, v \in AdjustPreValues :
         wpr = WeeklyPlayerRating(1, 2020, 1, position, SampleState(1, v),
                                  EmptyMetrics, None)
    /\ outcome = "new"
    /\ adj_arg \in AdjChoices
    /\ rating_matrix = None
    /\ rating_matrix_log = None
    /\ players_df = None
    /\ returned_df = None
    /\ off_weekly_player_stats = {}
    /\ init_frames = None

\* self.post_rating = self._apply_adjustments(adj), line 84, for a given adj.
CallApplyAdjustments ==
    /\ pc = "adjust"
    /\ outcome = "new"
    /\ LET result == ApplyAdjustments(wpr, adj_arg)
       IN  IF result.raised
           THEN /\ outcome' = result.error
                /\ UNCHANGED wpr
           ELSE /\ outcome' = "returned"
                /\ wpr' = [wpr EXCEPT !.post_rating = result.value]
    /\ UNCHANGED <<career_player_ratings, pre_rating, adj_arg>>
    /\ UNCHANGED <<orchestrator_vars, career_vars, matrix_vars,
                 transform_vars, init_vars>>

NextAdjust == CallApplyAdjustments

SpecAdjust == InitAdjust /\ [][NextAdjust]_vars

-----------------------------------------------------------------------------
(* PlayerPositionGroupRatingMatrix and its quarterback subclass *)

\* A DataFrame is [index |-> the row labels, columns |-> name -> row -> value]
\* and always carries player_id, which the row label stands for.  Values are
\* in hundredths (0.7 is 70, a z-score of 1.0 is 100); NaN is a value no
\* arithmetic touches.
NaN == -1000000

\* Largest cohort a caller passes in.
CohortSize == 3

Cohort == 1..CohortSize

QB_adjustment_directions ==
    [completion_percentage |-> "positive",
     yards_per_pass_attempt |-> "positive",
     passer_rating |-> "positive",
     VALUE_ELO |-> "positive",
     dakota |-> "positive",
     passing_epa |-> "positive",
     passing_yards |-> "positive",
     passing_tds |-> "positive",
     passing_first_downs |-> "positive",
     touchdown_per_play |-> "positive",
     interceptions |-> "negative",
     sack_rate |-> "negative"]

ATTR_STAT_MAP ==
    [throwpower |-> <<"passing_epa", "yards_per_pass_attempt",
                      "touchdown_per_play">>,
     throwaccuracyshort |-> <<"completion_percentage">>,
     throwaccuracymid |-> <<"completion_percentage">>,
     throwaccuracydeep |-> <<"yards_per_pass_attempt">>,
     awareness |-> <<"interceptions", "sack_rate">>,
     stamina |-> <<"total_plays">>]

\* QuarterbackPositionGroupRatingMatrix.__init__
QuarterbackPositionGroupRatingMatrix(season, form) ==
    [position_group |-> "quarterback",
     validation_requirement |-> [pass_attempts |-> 500],
     adjustment_fields |-> QB_adjustment_directions,
     rating_attribute_stat_map |-> ATTR_STAT_MAP,
     season_metrics |-> season,
     form_metrics |-> form]

DataFrame(rows, cols) == [index |-> rows, columns |-> cols]

\* Drops the first row, whatever it holds.
DropFirst(df, col, min_val) ==
    LET keep == {r \in df.index : \E x \in df.index : x < r}
    IN  [index |-> keep,
         columns |-> [c \in DOMAIN df.columns |->
                         [r \in keep |-> df.columns[c][r]]]]

\* df.drop(index=df[df[col] < min_val].index): NaN < min_val is False.
DropBelow(df, col, min_val) ==
    LET keep == {r \in df.index :
                    df.columns[col][r] = NaN \/ df.columns[col][r] >= min_val}
    IN  DataFrame(keep, [c \in DOMAIN df.columns |->
                            [r \in keep |-> df.columns[c][r]]])

RECURSIVE ValidateFrame(_, _, _, _)
ValidateFrame(df, prefix, requirement, fields) ==
    IF fields = {} THEN df
    ELSE LET raw_field == CHOOSE f \in fields : TRUE
             col == prefix \o raw_field
             next == IF col \in DOMAIN df.columns
                     THEN DropBelow(df, col, requirement[raw_field])
                     ELSE df
         IN  ValidateFrame(next, prefix, requirement, fields \ {raw_field})

\* _apply_validation: both frames, each by its own column.
ApplyValidation(m) ==
    [m EXCEPT
       !.season_metrics =
           ValidateFrame(m.season_metrics, "season_avg_",
                         m.validation_requirement,
                         DOMAIN m.validation_requirement),
       !.form_metrics =
           ValidateFrame(m.form_metrics, "form_", m.validation_requirement,
                         DOMAIN m.validation_requirement)]

RECURSIVE SumCol(_, _)
SumCol(col, rs) ==
    IF rs = {} THEN 0
    ELSE LET r == CHOOSE x \in rs : TRUE IN col[r] + SumCol(col, rs \ {r})

\* sum over the rows of (n * x - S)^2: n^3 times the population variance.
RECURSIVE SumSqDev(_, _, _, _)
SumSqDev(col, rs, n, total) ==
    IF rs = {} THEN 0
    ELSE LET r == CHOOSE x \in rs : TRUE
         IN  (n * col[r] - total) * (n * col[r] - total)
               + SumSqDev(col, rs \ {r}, n, total)

ISqrt(x) == CHOOSE k \in 0..300 : k * k <= x /\ (k + 1) * (k + 1) > x

\* (x - mean) / std in hundredths, truncated, from dev = n * x - S and
\* q = the sum of the dev^2: dev * sqrt(n / q).  The ratio dev^2 / q is taken
\* in millionths, in two steps that stay within 32 bits.
ZOf(dev, n, q) ==
    LET permille == (dev * dev * 1000) \div q
        rest == (((dev * dev * 1000) % q) * 1000) \div q
        ratio == permille * 1000 + rest
    IN  Sign(dev) * ISqrt((ratio * n) \div 100)

\* The sign of mean - v for n copies of the double v, the mean computed as
\* pandas does: the running sum in binary floating point, divided by n.
\* 0.7 + 0.7 + 0.7 is 2.0999999999999996 and a third of it
\* 0.6999999999999998; the sums of 0.5 and of whole numbers are exact.
\* Tabulated for the values of RawValues and the z-scores, up to six rows.
MeanError(v, n) ==
    IF v = 70 /\ n = 3 THEN -1
    ELSE IF v = 70 /\ n = 6 THEN 1
    ELSE 0

\* Lines 105-109 for one column: mean and std(ddof=0) skip NaN; z is in
\* hundredths, truncated.
ZValues(col, rows) ==
    LET obs == {r \in rows : col[r] # NaN}
        n == Cardinality(obs)
        total == SumCol(col, obs)
        q == SumSqDev(col, obs, n, total)
        v == col[CHOOSE r \in obs : TRUE]
        std_is_nan == n = 0
        std_is_zero == n > 0 /\ q = 0 /\ MeanError(v, n) = 0
    IN  [r \in rows |->
            IF std_is_zero \/ std_is_nan THEN 0
            ELSE IF col[r] = NaN THEN NaN
            ELSE IF q = 0 THEN -MeanError(v, n) * 100
            ELSE ZOf(n * col[r] - total, n, q)]

\* The z-scores with the direction left out of account.
ZscoreUndirected(col, rows, direction) == ZValues(col, rows)

\* -z: NaN stays NaN.
Neg(z) == IF z = NaN THEN NaN ELSE -z

\* Lines 105-113 for one column.
ZscoreColumn(col, rows, direction) ==
    [r \in rows |->
        IF direction = "negative" THEN Neg(ZValues(col, rows)[r])
        ELSE ZValues(col, rows)[r]]

\* _zscore_adjustment: every metric of adjustment_fields whose column the
\* frame has; a missing column is skipped.
ZscoreAdjustment(df, prefix, adjustment_fields) ==
    DataFrame(df.index,
        [c \in DOMAIN df.columns |->
            IF \E metric \in DOMAIN adjustment_fields : c = prefix \o metric
            THEN LET metric == CHOOSE k \in DOMAIN adjustment_fields :
                                   c = prefix \o k
                 IN  ZscoreColumn(df.columns[c], df.index,
                                  adjustment_fields[metric])
            ELSE df.columns[c]])

\* adjust_metrics
AdjustMetricsOf(m) ==
    LET validated == ApplyValidation(m)
    IN  [validated EXCEPT
           !.season_metrics =
               ZscoreAdjustment(validated.season_metrics, "season_avg_",
                                m.adjustment_fields),
           !.form_metrics =
               ZscoreAdjustment(validated.form_metrics, "form_",
                                m.adjustment_fields)]

\* compute_attribute_deltas (lines 71-76) passes which= to a helper that has
\* no such parameter.
ComputeAttributeDeltas(m, pre_ratings_df) == Raised("TypeError")

\* Line 131: (col - col.mean()) / (col.std(ddof=0) or 1) on whole ratings.
AttrZ(col, rows) ==
    LET n == Cardinality(rows)
        total == SumCol(col, rows)
        q == SumSqDev(col, rows, n, total)
    IN  [r \in rows |->
            IF q = 0 THEN 0
            ELSE ZOf(n * col[r] - total, n, q)]

SeqRange(s) == {s[i] : i \in 1..Len(s)}

\* season[stat_cols].mean(axis=1) for one row: NaN cells are skipped.
RowMean(df, stat_cols, r) ==
    LET obs == {c \in stat_cols : df.columns[c][r] # NaN}
        total == SumCol([c \in obs |-> df.columns[c][r]], obs)
    IN  IF obs = {} THEN NaN
        ELSE Sign(total) * (Abs(total) \div Cardinality(obs))

\* _compute_attribute_deltas (lines 115-152).  deltas starts as a frame of
\* NaN; an attribute none of whose stat columns is present keeps that NaN.
PrivateComputeAttributeDeltas(m, pre_ratings_df) ==
    LET season == m.season_metrics
        attrs == DOMAIN m.rating_attribute_stat_map
        attr_z == [a \in attrs |->
                      AttrZ(pre_ratings_df.columns[a], pre_ratings_df.index)]
        stat_cols(a) ==
            {"season_avg_" \o k : k \in SeqRange(m.rating_attribute_stat_map[a])}
              \cap DOMAIN season.columns
    IN  DataFrame(season.index,
            [a \in attrs |->
                [r \in season.index |->
                    IF stat_cols(a) = {} THEN NaN
                    ELSE IF r \notin pre_ratings_df.index THEN NaN
                    ELSE IF RowMean(season, stat_cols(a), r) = NaN THEN NaN
                    ELSE RowMean(season, stat_cols(a), r) - attr_z[a][r]]])

-----------------------------------------------------------------------------
(* SpecMatrix: a caller of the quarterback rating matrix *)

\* Raw metric values, in hundredths: 0.5 is a double whose sums are exact,
\* 0.7 is one whose sum of three is not.
RawValues == {50, 70}

\* Calls a caller makes on one matrix.
MaxMatrixCalls == 2

\* A column of one value, or one whose first row differs from the others.
ColumnChoices(cells) ==
    {[r \in Cohort |-> v] : v \in cells}
      \cup {[r \in Cohort |-> IF r = 1 THEN a ELSE b] :
                a \in cells, b \in cells}

\* The frames: each of the metric columns is absent or present, and so is
\* the pass_attempts column the validation reads.
MetricFrames(prefix, metrics, cells) ==
    LET all == {prefix \o k : k \in metrics}
        pa == prefix \o "pass_attempts"
        metric_cols == {[c \in cs |-> f[c]] :
                           cs \in SUBSET all,
                           f \in [all -> ColumnChoices(cells)]}
        attempts == {[c \in {} |-> 0]}
                      \cup {[c \in {pa} |-> col] :
                               col \in {[r \in Cohort |-> 500],
                                        [r \in Cohort |->
                                            IF r = 1 THEN 400 ELSE 500]}}
    IN  {DataFrame(Cohort, [c \in DOMAIN m \cup DOMAIN a |->
                               IF c \in DOMAIN m THEN m[c] ELSE a[c]]) :
            m \in metric_cols, a \in attempts}

\* pre_ratings_df: one row per player, the Madden attributes of the map.
PreRatingsChoices ==
    {DataFrame(rows, [a \in DOMAIN ATTR_STAT_MAP |->
                         [r \in rows |-> IF a = "awareness" /\ r = 1
                                         THEN v ELSE 70]]) :
        rows \in {Cohort, Cohort \ {1}}, v \in {70, 90}}

InitMatrix ==
    /\ load_seasons = <<2020>>
    /\ career_player_ratings = [p \in Players |-> NewCareerPlayerRating(p)]
    /\ player_states = {}
    /\ read_weeks = {}
    /\ pc = "matrix"
    /\ raised = ""
    /\ season_idx = 1
    /\ week = 1
    /\ player_id_list = {}
    /\ init_players_list = {}
    /\ regress_players_list = {}
    /\ pre_rating = [p \in Players |-> None]
    /\ processed = <<>>
    /\ init_count = [p \in Players |-> 0]
    /\ regress_invoked = {}
    /\ last_active = [p \in Players |-> None]
    /\ observed = None
    /\ last_appended = [p \in Players |-> None]
    /\ wpr = None
    /\ outcome = "new"
    /\ adj_arg = None
    /\ \E season \in MetricFrames("season_avg_",
                                   {"completion_percentage", "interceptions"},
                                   RawValues \cup {NaN}),
          form \in MetricFrames("form_", {"completion_percentage"},
                                 RawValues) :
         /\ rating_matrix = QuarterbackPositionGroupRatingMatrix(season, form)
         /\ rating_matrix_log =
                [season_metrics |-> season, form_metrics |-> form,
                 calls |-> <<>>, result |-> None]
    /\ players_df = None
    /\ returned_df = None
    /\ off_weekly_player_stats = {}
    /\ init_frames = None

MatrixUnchanged ==
    UNCHANGED <<orchestrator_vars, career_vars, apply_vars, transform_vars,
                init_vars, career_player_ratings, pre_rating>>

AdjustMetrics ==
    /\ pc = "matrix"
    /\ Len(rating_matrix_log.calls) < MaxMatrixCalls
    /\ rating_matrix' = AdjustMetricsOf(rating_matrix)
    /\ rating_matrix_log' =
           [rating_matrix_log EXCEPT
              !.calls = Append(@, "adjust_metrics")]
    /\ MatrixUnchanged

CallComputeAttributeDeltas ==
    /\ pc = "matrix"
    /\ Len(rating_matrix_log.calls) < MaxMatrixCalls
    /\ \E pre_ratings_df \in PreRatingsChoices :
         rating_matrix_log' =
             [rating_matrix_log EXCEPT
                !.calls = Append(@, "compute_attribute_deltas"),
                !.result = ComputeAttributeDeltas(rating_matrix,
                                                  pre_ratings_df)]
    /\ UNCHANGED rating_matrix
    /\ MatrixUnchanged

CallPrivateComputeAttributeDeltas ==
    /\ pc = "matrix"
    /\ Len(rating_matrix_log.calls) < MaxMatrixCalls
    /\ \E pre_ratings_df \in PreRatingsChoices :
         rating_matrix_log' =
             [rating_matrix_log EXCEPT
                !.calls = Append(@, "_compute_attribute_deltas"),
                !.result = Returned(PrivateComputeAttributeDeltas(
                                        rating_matrix, pre_ratings_df))]
    /\ UNCHANGED rating_matrix
    /\ MatrixUnchanged

\* _apply_validation called on its own.
CallApplyValidation ==
    /\ pc = "matrix"
    /\ Len(rating_matrix_log.calls) < MaxMatrixCalls
    /\ rating_matrix' = ApplyValidation(rating_matrix)
    /\ rating_matrix_log' =
           [rating_matrix_log EXCEPT
              !.calls = Append(@, "_apply_validation")]
    /\ MatrixUnchanged

NextMatrix ==
    \/ AdjustMetrics
    \/ CallApplyValidation
    \/ CallComputeAttributeDeltas
    \/ CallPrivateComputeAttributeDeltas

SpecMatrix == InitMatrix /\ [][NextMatrix]_vars

-----------------------------------------------------------------------------
(* The week-1 adjustment: _simple_adjust_preseason_ratings *)

\* A frame of players is a function player_id -> row.  A row carries
\* position_group, is_rookie ("True", "False", or "NaN" where the column has
\* no value), last_season_av (whole points or NaN) and the Madden features,
\* in hundredths of a point or NaN.
MADDEN_FEATURES ==
    {"overallrating", "agility", "acceleration", "speed", "stamina",
     "strength", "toughness", "injury", "awareness", "jumping",
     "trucking", "throwpower", "throwaccuracyshort",
     "throwaccuracymid", "throwaccuracydeep", "playaction",
     "throwonrun", "carrying", "ballcarriervision", "stiffarm",
     "spinmove", "jukemove", "catching", "shortrouterunning",
     "midrouterunning", "deeprouterunning", "spectacularcatch",
     "catchintraffic", "release", "runblocking", "passblocking",
     "impactblocking", "mancoverage", "zonecoverage", "tackle",
     "hitpower", "press", "pursuit", "kickaccuracy", "kickpower",
     "return"}

PlayerRow(position_group, is_rookie, last_season_av, overallrating, v) ==
    [position_group |-> position_group,
     is_rookie |-> is_rookie,
     last_season_av |-> last_season_av,
     features |-> [f \in MADDEN_FEATURES |->
                      IF f = "overallrating" THEN overallrating * 100
                      ELSE v * 100]]

\* 6 * (x - min) / (max - min) - 3 over the rows of sel, in hundredths; 0 / 0
\* is NaN.
RECURSIVE MinOver(_, _)
MinOver(col, rs) ==
    LET r == CHOOSE x \in rs : TRUE
    IN  IF rs = {r} THEN col[r]
        ELSE Min(col[r], MinOver(col, rs \ {r}))

RECURSIVE MaxOver(_, _)
MaxOver(col, rs) ==
    LET r == CHOOSE x \in rs : TRUE
    IN  IF rs = {r} THEN col[r]
        ELSE -Min(-col[r], -MaxOver(col, rs \ {r}))

Standardized(col, sel, r) ==
    IF MaxOver(col, sel) = MinOver(col, sel) THEN NaN
    ELSE (600 * (col[r] - MinOver(col, sel)))
           \div (MaxOver(col, sel) - MinOver(col, sel)) - 300

\* No adjustment for anyone.
ZeroAdjustment(df, p) == 0

\* Lines 286-306: the madden_adjustment column of the quarterback rows, in
\* hundredths.  Rows whose is_rookie is neither True nor False are in none of
\* the three groups.
MaddenAdjustment(df, p) ==
    LET group == {x \in DOMAIN df : df[x].position_group = "quarterback"}
        fit == {x \in group : df[x].is_rookie = "False"
                                 /\ df[x].last_season_av # NaN}
        av == [x \in fit |-> df[x].last_season_av]
        ovr == [x \in fit |-> df[x].features.overallrating]
        standardized_features == Standardized(av, fit, p)
        standardized_madden == Standardized(ovr, fit, p)
    IN  IF df[p].is_rookie = "True" THEN 0
        ELSE IF df[p].last_season_av = NaN THEN -50
        ELSE IF standardized_features = NaN \/ standardized_madden = NaN
        THEN NaN
        ELSE Clip(standardized_features - standardized_madden, -300, 300)

\* Lines 278-317: only the quarterback group is processed, and of it the
\* rows of the three groups that line 307 concatenates; every Madden feature
\* becomes (madden_adjustment + feature).clip(lower=5, upper=99).
SimpleAdjustPreseasonRatings(df) ==
    LET group == {x \in DOMAIN df : df[x].position_group = "quarterback"}
        kept == {x \in group : df[x].is_rookie \in {"True", "False"}}
    IN  [p \in kept |->
            [df[p] EXCEPT
               !.features =
                   [f \in MADDEN_FEATURES |->
                       IF MaddenAdjustment(df, p) = NaN \/ df[p].features[f] = NaN
                       THEN NaN
                       ELSE Clip(MaddenAdjustment(df, p) + df[p].features[f],
                                 500, 9900)]]]

\* adjust_preseason_ratings returns at line 335.
AdjustPreseasonRatingsOf(df) == SimpleAdjustPreseasonRatings(df)

\* The rows of player 1: every combination the three groups tell apart.
FirstRows ==
    {PlayerRow(g, rookie, av, ovr, 70) :
        g \in {"quarterback", "running_back"},
        rookie \in {"True", "False", "NaN"},
        av \in {NaN, 4, 12}, ovr \in {3, 70, 99}}

\* The rows of the rest of the cohort.
OtherRows ==
    {PlayerRow("quarterback", "False", 4, 70, 70),
     PlayerRow("quarterback", "False", 12, 80, 70),
     PlayerRow("quarterback", "True", NaN, 70, 70)}

PreseasonFrames ==
    {[p \in Cohort |-> IF p = 1 THEN first ELSE rest[p]] :
        first \in FirstRows, rest \in [Cohort -> OtherRows]}

InitPreseason ==
    /\ load_seasons = <<2020>>
    /\ career_player_ratings = [p \in Players |-> NewCareerPlayerRating(p)]
    /\ player_states = {}
    /\ read_weeks = {}
    /\ pc = "preseason"
    /\ raised = ""
    /\ season_idx = 1
    /\ week = 1
    /\ player_id_list = {}
    /\ init_players_list = {}
    /\ regress_players_list = {}
    /\ pre_rating = [p \in Players |-> None]
    /\ processed = <<>>
    /\ init_count = [p \in Players |-> 0]
    /\ regress_invoked = {}
    /\ last_active = [p \in Players |-> None]
    /\ observed = None
    /\ last_appended = [p \in Players |-> None]
    /\ wpr = None
    /\ outcome = "new"
    /\ adj_arg = None
    /\ rating_matrix = None
    /\ rating_matrix_log = None
    /\ players_df \in PreseasonFrames
    /\ returned_df = None
    /\ off_weekly_player_stats = {}
    /\ init_frames = None

TransformUnchanged ==
    UNCHANGED <<orchestrator_vars, career_vars, apply_vars, matrix_vars,
                init_vars, career_player_ratings, pre_rating>>

\* qbs = adjust_preseason_ratings(qbs), rating.py line 591.
AdjustPreseasonRatings ==
    /\ pc = "preseason"
    /\ returned_df = None
    /\ returned_df' = AdjustPreseasonRatingsOf(players_df)
    /\ UNCHANGED players_df
    /\ TransformUnchanged

NextPreseason == AdjustPreseasonRatings

SpecPreseason == InitPreseason /\ [][NextPreseason]_vars

-----------------------------------------------------------------------------
(* impute_base_player_ratings: the method of rating.py ("component") and   *)
(* the function of player.py ("transform")                                 *)

general_features ==
    {"forty", "bench", "vertical", "broad_jump", "cone", "shuttle",
     "last_season_av"}

\* rating.py lines 440-447 leave age out, player.py lines 239-247 have it.
general_helper_features(path) ==
    {"height", "weight", "years_exp", "draft_year", "draft_pick", "is_rookie"}
      \cup (IF path = "transform" THEN {"age"} ELSE {})

\* general_features + the Madden columns + pos_group_features.
allowed_impute_cols(path, pos_group_features) ==
    general_features \cup MADDEN_FEATURES \cup pos_group_features

\* The imputer each path constructs: random_state is <<seed>> where one is
\* passed and <<>> where none is, which leaves the imputer on the global
\* random state of numpy.
IterativeImputer(path) ==
    [random_state |-> IF path = "component" THEN <<0>> ELSE <<>>]

\* An imputation frame is [index |-> rows, position_group |-> row -> group,
\* columns |-> name -> row -> value or NaN].
NullCount(col, rows) == Cardinality({r \in rows : col[r] = NaN})

\* The rows imputed: player.py line 259 takes the quarterbacks, rating.py
\* takes the frame as it is.
GroupRows(path, df) ==
    IF path = "transform"
    THEN {r \in df.index : df.position_group[r] = "quarterback"}
    ELSE df.index

\* cols_with_missing: some nulls among the rows imputed, and not as many as
\* df.shape[0], the rows of the whole frame.
ColsWithMissing(path, df, pos_group_features) ==
    {c \in allowed_impute_cols(path, pos_group_features) :
        /\ NullCount(df.columns[c], GroupRows(path, df)) > 0
        /\ NullCount(df.columns[c], GroupRows(path, df))
             # Cardinality(df.index)}

\* impute_df[cols_with_missing + general_helper_features]
ImputeDf(path, df, pos_group_features) ==
    LET cols == ColsWithMissing(path, df, pos_group_features)
                  \cup general_helper_features(path)
        rows == GroupRows(path, df)
    IN  DataFrame(rows, [c \in cols |-> [r \in rows |-> df.columns[c][r]]])

AllNull(col, rows) == \A r \in rows : col[r] = NaN

\* imputer.fit_transform: a column without any observed value is left out of
\* the output (keep_empty_features is False); a missing cell gets a value
\* computed from the observed ones, here that of the first round, the mean
\* of its column.
FitTransform(imputer, X) ==
    LET kept == {c \in DOMAIN X.columns : ~AllNull(X.columns[c], X.index)}
        obs(c) == {r \in X.index : X.columns[c][r] # NaN}
    IN  DataFrame(X.index,
            [c \in kept |->
                [r \in X.index |->
                    IF X.columns[c][r] # NaN THEN X.columns[c][r]
                    ELSE SumCol(X.columns[c], obs(c))
                           \div Cardinality(obs(c))]])

\* The whole call.  pd.DataFrame(data=out, columns=...) raises ValueError
\* when out has fewer columns than names; the imputed columns replace the
\* dropped ones, the helper columns stay as they were.
ImputeBasePlayerRatingsOf(path, df, pos_group_features) ==
    LET imputer == IterativeImputer(path)
        impute_df == ImputeDf(path, df, pos_group_features)
        out == FitTransform(imputer, impute_df)
        cols_with_missing == ColsWithMissing(path, df, pos_group_features)
        rows == GroupRows(path, df)
    IN  [imputer |-> imputer,
         impute_df |-> impute_df,
         outcome |->
             IF DOMAIN out.columns # DOMAIN impute_df.columns
             THEN Raised("ValueError")
             ELSE Returned(
                    [index |-> rows,
                     position_group |-> [r \in rows |-> df.position_group[r]],
                     columns |->
                         [c \in DOMAIN df.columns |->
                             [r \in rows |->
                                 IF c \in cols_with_missing
                                 THEN out.columns[c][r]
                                 ELSE df.columns[c][r]]]])]

\* Columns of a frame: observed in every row, null in the first row, or null
\* in every row.
ImputePatterns ==
    {[r \in Cohort |-> 10 * r],
     [r \in Cohort |-> IF r = 1 THEN NaN ELSE 10 * r],
     [r \in Cohort |-> NaN]}

\* Two imputable columns and one helper column vary; the others are
\* observed everywhere.
ImputeFrames ==
    {[index |-> Cohort,
      position_group |-> [r \in Cohort |-> IF r = 1 THEN g ELSE "quarterback"],
      columns |->
          [c \in allowed_impute_cols("transform", {})
                   \cup general_helper_features("transform") |->
              IF c = "forty" THEN forty
              ELSE IF c = "last_season_av" THEN last_season_av
              ELSE IF c = "draft_pick" THEN draft_pick
              ELSE [r \in Cohort |-> 1]]] :
        g \in {"quarterback", "running_back"},
        forty \in ImputePatterns, last_season_av \in ImputePatterns,
        draft_pick \in ImputePatterns}

\* How often a caller runs the imputer on one input.
MaxImputeRuns == 2

InitImpute ==
    /\ load_seasons = <<2020>>
    /\ career_player_ratings = [p \in Players |-> NewCareerPlayerRating(p)]
    /\ player_states = {}
    /\ read_weeks = {}
    /\ pc = "impute"
    /\ raised = ""
    /\ season_idx = 1
    /\ week = 1
    /\ player_id_list = {}
    /\ init_players_list = {}
    /\ regress_players_list = {}
    /\ pre_rating = [p \in Players |-> None]
    /\ processed = <<>>
    /\ init_count = [p \in Players |-> 0]
    /\ regress_invoked = {}
    /\ last_active = [p \in Players |-> None]
    /\ observed = None
    /\ last_appended = [p \in Players |-> None]
    /\ wpr = None
    /\ outcome = "new"
    /\ adj_arg = None
    /\ rating_matrix = None
    /\ rating_matrix_log = None
    /\ \E path \in {"component", "transform"}, df \in ImputeFrames :
         players_df = [path |-> path, df |-> df]
    /\ returned_df = <<>>
    /\ off_weekly_player_stats = {}
    /\ init_frames = None

\* One run of the imputation of the path on the unchanged input.
ImputeBasePlayerRatings ==
    /\ pc = "impute"
    /\ Len(returned_df) < MaxImputeRuns
    /\ returned_df' =
           Append(returned_df,
                  ImputeBasePlayerRatingsOf(players_df.path, players_df.df, {}))
    /\ UNCHANGED players_df
    /\ TransformUnchanged

NextImpute == ImputeBasePlayerRatings

SpecImpute == InitImpute /\ [][NextImpute]_vars

-----------------------------------------------------------------------------
(* Properties *)

InRange(state) == \A a \in Attributes : state[a] >= 0 /\ state[a] <= 99

\* C1: after any update (initialization, week-1 adjustment, weekly update)
\* every attribute of every stored rating state lies in [0,99], whatever the
\* deltas and the pre-rating were.  Stored are the init_player_rating_state of
\* a career and the post_rating of a weekly update.
C1_AttributesInRange ==
    /\ \A p \in Players :
         career_player_ratings[p].init_player_rating_state # None
           => InRange(career_player_ratings[p].init_player_rating_state)
    /\ (wpr # None /\ outcome = "returned") => InRange(wpr.post_rating)

\* C2: for a continuing player the pre-rating the orchestrator selects is the
\* post-rating of the player's most recent timeline entry.
C2_PreRatingIsLastPostRating ==
    (/\ observed # None
     /\ observed.kind = "pre_rating"
     /\ observed.entries > 0
     /\ observed.newest.post_rating # None)
      => observed.result = observed.newest.post_rating

\* C3: once the orchestrator has run the weekly update of (season, week) for
\* an active player, that player's timeline ends with the snapshot of that
\* (season, week).
C3_SnapshotAppended ==
    \A p \in Players :
      last_active[p] # None
        => /\ Len(career_player_ratings[p].weekly_player_ratings) > 0
           /\ CurrentRating(career_player_ratings[p]).season = last_active[p][1]
           /\ CurrentRating(career_player_ratings[p]).week = last_active[p][2]

\* C5: current_rating is none exactly when the timeline has no entry, and is
\* otherwise the entry appended last.
C5_CurrentRating ==
    (observed # None /\ observed.kind = "current_rating")
      => /\ (observed.result = None) <=> (observed.entries = 0)
         /\ observed.entries > 0 => observed.result = observed.newest

\* C5 witness: a read after several appends that returned the newest entry,
\* which differs from the oldest one.
C5_Witness ==
    /\ observed # None
    /\ observed.kind = "current_rating"
    /\ observed.entries >= 2
    /\ observed.result = observed.newest
    /\ observed.result #
         career_player_ratings[observed.player_id].weekly_player_ratings[1]

\* C6: a player's initial rating state is created once: by init_players, in a
\* (season, week) where the player has a row and no state yet; the call leaves
\* every player it was given with a state, so every player of the week has
\* one when the weekly update starts; and the state, init_season and
\* init_week are never replaced or cleared afterwards.
C6_InitializedOnce ==
    [][\A p \in Players :
         LET old == career_player_ratings[p]
             new == career_player_ratings'[p]
         IN  /\ old.init_player_rating_state # None
                  => /\ new.init_player_rating_state = old.init_player_rating_state
                     /\ new.init_season = old.init_season
                     /\ new.init_week = old.init_week
             /\ (old.init_player_rating_state = None
                   /\ new.init_player_rating_state # None)
                  => /\ pc = "init"
                     /\ p \in init_players_list
                     /\ p \in player_id_list
                     /\ new.init_season = Season
                     /\ new.init_week = week
             /\ init_count'[p] =
                  (IF new.init_player_rating_state = None THEN 0 ELSE 1)
             /\ (pc = "init" /\ p \in init_players_list)
                  => new.init_player_rating_state # None
             /\ (pc' = "update" /\ p \in player_id_list')
                  => new.init_player_rating_state # None]_vars

\* (season, week) a comes before b.
Before(a, b) == a[1] < b[1] \/ (a[1] = b[1] /\ a[2] < b[2])

\* C7: seasons are processed in increasing order and, within a season, weeks
\* 1..W(season) in increasing order, each once: no (season, week) is processed
\* before an earlier one, and a run that has ended has processed every week of
\* every listed season.
C7_IncreasingOrder ==
    /\ \A i \in 1..Len(processed) :
         processed[i][2] \in 1..LastWeek(processed[i][1])
    /\ \A i \in 1..Len(processed) : \A j \in 1..Len(processed) :
         i < j => Before(processed[i], processed[j])
    /\ pc \in {"done", "aborted"} =>
         \A i \in 1..Len(load_seasons) : \A w \in 1..LastWeek(load_seasons[i]) :
           \E k \in 1..Len(processed) : processed[k] = <<load_seasons[i], w>>

C9_NoOpUpdate ==
    (/\ wpr # None
     /\ outcome # "new"
     /\ (DOMAIN wpr.performance_metrics = {} \/ wpr.rating_matrix = None))
      => /\ outcome = "returned"
         /\ wpr.post_rating = wpr.pre_rating

\* C10: a failure in the weekly update of one player-week is caught and
\* skipped; it never aborts the run.
C10_FailureIsolated ==
    ~(pc = "aborted"
        /\ raised \in {"run_pipeline", "position_based_adjustment_matrix"})

\* The exact sum cur + raw_delta * factor, clipped to [0,99], in
\* ten-thousandths of a point; the factor in hundredths.
ExactClipped(cur, delta, factor) == Clip(cur * 10000 + delta * factor, 0, 99 * 10000)

\* C11: the new value of an adjusted attribute is
\* clip(current + raw_delta * (1 - decay), 0, 99) rounded to the nearest
\* integer: it is at most half a point away from the clipped sum.
C11_RoundedToNearest ==
    (pc = "adjust" /\ outcome = "returned")
      => \A a \in DOMAIN adj_arg :
           Abs(wpr.post_rating[a] * 10000
                 - ExactClipped(wpr.pre_rating[a], adj_arg[a],
                                100 - DecayByBucket[BucketOf(a)])) <= 5000

\* The buckets that list an attribute.
BucketsOf(attr) == {b \in DOMAIN AttributeBucket : attr \in AttributeBucket[b]}

\* C12: no attribute is in two buckets, and the change applied to an
\* attribute is exactly raw_delta * 0.05 (physical), * 0.10 (mental) or
\* * 0.15 (technical, and every attribute in no bucket): the stored value is
\* the whole part of the clipped sum of the current value and that change.
C12_DecayByBucket ==
    /\ \A a \in Attributes : Cardinality(BucketsOf(a)) <= 1
    /\ (pc = "adjust" /\ outcome = "returned")
         => \A a \in DOMAIN adj_arg :
              LET factor == IF a \in AttributeBucket.physical THEN 5
                            ELSE IF a \in AttributeBucket.mental THEN 10
                            ELSE 15
              IN  wpr.post_rating[a]
                    = ExactClipped(wpr.pre_rating[a], adj_arg[a], factor) \div 10000

Views == {"season_metrics", "form_metrics"}

PrefixOf(view) == IF view = "season_metrics" THEN "season_avg_" ELSE "form_"

AdjustedOnce ==
    /\ rating_matrix_log # None
    /\ rating_matrix_log.calls = <<"adjust_metrics">>

\* The rows of a raw column that the validation kept all hold one value
\* (NaN in all of them included).
IdenticalCohort(view, col) ==
    \A r1 \in rating_matrix[view].index, r2 \in rating_matrix[view].index :
        rating_matrix_log[view].columns[col][r1]
          = rating_matrix_log[view].columns[col][r2]

\* C14: after adjust_metrics, a metric whose raw value is the same for every
\* player of the cohort (std 0 or undefined) is 0 for every player, in the
\* season view and in the form view.
C14_IdenticalCohortZero ==
    AdjustedOnce =>
        \A view \in Views, metric \in DOMAIN QB_adjustment_directions :
            LET col == PrefixOf(view) \o metric
            IN  (col \in DOMAIN rating_matrix_log[view].columns
                   /\ IdenticalCohort(view, col))
                  => \A r \in rating_matrix[view].index :
                         rating_matrix[view].columns[col][r] = 0

\* A view holds both metrics, with the same raw column for each.
SameRawInputs(view, positive, negative) ==
    /\ {PrefixOf(view) \o positive, PrefixOf(view) \o negative}
          \subseteq DOMAIN rating_matrix_log[view].columns
    /\ rating_matrix_log[view].columns[PrefixOf(view) \o positive]
          = rating_matrix_log[view].columns[PrefixOf(view) \o negative]

\* C15: over the same cohort and the same raw column, a metric of direction
\* "negative" is normalized to exactly the negation of what a metric of
\* direction "positive" is normalized to.
C15_NegativeIsNegation ==
    AdjustedOnce =>
        \A view \in Views :
            \A positive \in {k \in DOMAIN QB_adjustment_directions :
                                QB_adjustment_directions[k] = "positive"},
               negative \in {k \in DOMAIN QB_adjustment_directions :
                                QB_adjustment_directions[k] = "negative"} :
                SameRawInputs(view, positive, negative)
                  => \A r \in rating_matrix[view].index :
                         rating_matrix[view].columns[PrefixOf(view) \o negative][r]
                           = Neg(rating_matrix[view].columns[
                                     PrefixOf(view) \o positive][r])

\* Two players of one cohort differ in a raw value that both metrics share,
\* and the normalized value of the positive metric is not 0.
C15_Witness ==
    /\ AdjustedOnce
    /\ SameRawInputs("season_metrics", "completion_percentage",
                     "interceptions")
    /\ \E r \in rating_matrix.season_metrics.index :
          /\ rating_matrix.season_metrics.columns[
                 "season_avg_completion_percentage"][r] > 0
          /\ rating_matrix.season_metrics.columns[
                 "season_avg_interceptions"][r] < 0

\* C16: in the week-1 adjustment every rookie quarterback gets adjustment 0,
\* whatever its last_season_av and overall are, and every quarterback who is
\* no rookie and has no last_season_av gets -0.5: each Madden feature of the
\* returned row is the given one plus that adjustment, within the clip.
C16_RookieAndUnfitAdjustment ==
    (pc = "preseason" /\ returned_df # None) =>
        \A p \in DOMAIN players_df :
            players_df[p].position_group = "quarterback" =>
                /\ players_df[p].is_rookie = "True" =>
                       /\ p \in DOMAIN returned_df
                       /\ \A f \in MADDEN_FEATURES :
                              returned_df[p].features[f]
                                = Clip(players_df[p].features[f], 500, 9900)
                /\ (players_df[p].is_rookie = "False"
                      /\ players_df[p].last_season_av = NaN) =>
                       /\ p \in DOMAIN returned_df
                       /\ \A f \in MADDEN_FEATURES :
                              returned_df[p].features[f]
                                = Clip(players_df[p].features[f] - 50, 500,
                                       9900)

\* A frame with a rookie who has a last_season_av, a rookie who has none,
\* and a quarterback who is no rookie and has none, has gone through.
C16_Witness ==
    /\ pc = "preseason"
    /\ returned_df # None
    /\ players_df[1].position_group = "quarterback"
    /\ players_df[1].is_rookie = "False"
    /\ players_df[1].last_season_av = NaN
    /\ returned_df[1].features["awareness"] = 6950
    /\ \E p \in DOMAIN players_df :
          players_df[p].is_rookie = "True" /\ players_df[p].last_season_av = NaN

C18_AllNullExcluded ==
    (pc = "impute" /\ Len(returned_df) > 0) =>
        /\ \A c \in DOMAIN returned_df[1].impute_df.columns :
               ~AllNull(returned_df[1].impute_df.columns[c],
                        returned_df[1].impute_df.index)
        /\ ~returned_df[1].outcome.raised

\* C19: the weekly update of a player whose position has no weight table
\* completes without error: the weight map is empty and no overall is
\* recomputed, so the post-rating holds what _apply_adjustments made of the
\* attributes and nothing else.
C19_NoWeightTable ==
    (pc = "apply" /\ outcome # "new"
       /\ DOMAIN PositionWeights(wpr.position) = {}) =>
        /\ outcome = "returned"
        /\ DOMAIN wpr.post_rating = DOMAIN wpr.pre_rating

\* The stat columns of an attribute that the season view has.
PresentStatCols(a) ==
    {"season_avg_" \o k : k \in SeqRange(ATTR_STAT_MAP[a])}
      \cap DOMAIN rating_matrix.season_metrics.columns

\* C20: a stat column that a mapping names and the view lacks is skipped
\* without error, in adjust_metrics and in the computation of the attribute
\* deltas, and an attribute none of whose stat columns is there gets the
\* delta 0 for every player, not an undefined value.
C20_MissingColumnNoSignal ==
    (rating_matrix_log # None /\ rating_matrix_log.result # None) =>
        /\ ~rating_matrix_log.result.raised
        /\ \A a \in DOMAIN ATTR_STAT_MAP :
               PresentStatCols(a) = {} =>
                   \A r \in rating_matrix_log.result.value.index :
                       rating_matrix_log.result.value.columns[a][r] = 0

\* The position in calls of the call that rating_matrix_log.result is of: the
\* last one that computes deltas; 0 when there is none.
LastDeltasCall ==
    LET is == {i \in 1..Len(rating_matrix_log.calls) :
                  rating_matrix_log.calls[i]
                    \in {"compute_attribute_deltas",
                         "_compute_attribute_deltas"}}
    IN  IF is = {} THEN 0 ELSE CHOOSE i \in is : \A j \in is : j <= i

NormalizedBefore(i) ==
    \E j \in 1..(i - 1) : rating_matrix_log.calls[j] = "adjust_metrics"

\* C21: a computation of the attribute deltas that adjust_metrics has not
\* preceded returns no deltas: it is reported as an error.
C21_DeltasOnlyAfterAdjust ==
    (rating_matrix_log # None /\ LastDeltasCall > 0
       /\ ~NormalizedBefore(LastDeltasCall)) =>
        rating_matrix_log.result.raised

\* A call that validates: _apply_validation itself or adjust_metrics, which
\* begins with it.
ValidatingCalls == {"_apply_validation", "adjust_metrics"}

Validated ==
    \E i \in 1..Len(rating_matrix_log.calls) :
        rating_matrix_log.calls[i] \in ValidatingCalls

\* C22: on a cohort that has been validated, validating again with the same
\* thresholds drops no row, neither from the season view nor from the form
\* view.
C22_ValidationIdempotent ==
    [][(/\ Validated
        /\ Len(rating_matrix_log'.calls) = Len(rating_matrix_log.calls) + 1
        /\ rating_matrix_log'.calls[Len(rating_matrix_log'.calls)]
             \in ValidatingCalls)
         => /\ rating_matrix'.season_metrics.index
                 = rating_matrix.season_metrics.index
            /\ rating_matrix'.form_metrics.index
                 = rating_matrix.form_metrics.index]_vars

\* _apply_validation has run twice, and the first run dropped a player from
\* the season view.
C22_Witness ==
    /\ rating_matrix_log # None
    /\ rating_matrix_log.calls = <<"_apply_validation", "_apply_validation">>
    /\ rating_matrix.season_metrics.index
         # rating_matrix_log.season_metrics.index
    /\ rating_matrix.season_metrics.index # {}

\* The names a column of a view can have after its prefix.
MetricNames ==
    DOMAIN QB_adjustment_directions \cup {"pass_attempts", "total_plays"}

\* The form view under the column names of the season view.
FormAsSeason(form) ==
    LET ks == {k \in MetricNames : ("form_" \o k) \in DOMAIN form.columns}
    IN  [index |-> form.index,
         columns |-> [c \in {"season_avg_" \o k : k \in ks} |->
                         form.columns["form_" \o
                             (CHOOSE k \in ks : c = "season_avg_" \o k)]]]

\* The delta of one view as the claim describes it: the mean normalized z of
\* the mapped stats of the view minus the z-score of the attribute.
ViewDelta(m, pre_ratings_df, view) ==
    IF view = "season_metrics"
    THEN PrivateComputeAttributeDeltas(m, pre_ratings_df)
    ELSE PrivateComputeAttributeDeltas(
             [m EXCEPT !.season_metrics = FormAsSeason(m.form_metrics)],
             pre_ratings_df)

\* season_weight * season_delta + (1 - season_weight) * form_delta with the
\* weights in hundredths; the sum is over the players both views hold.
CombinedDelta(m, pre_ratings_df, season_weight) ==
    LET s == ViewDelta(m, pre_ratings_df, "season_metrics")
        f == ViewDelta(m, pre_ratings_df, "form_metrics")
        rows == s.index \cup f.index
    IN  [index |-> rows,
         columns |->
             [a \in DOMAIN ATTR_STAT_MAP |->
                 [r \in rows |->
                     IF r \notin s.index \/ r \notin f.index THEN NaN
                     ELSE IF s.columns[a][r] = NaN \/ f.columns[a][r] = NaN
                     THEN NaN
                     ELSE TruncDiv(season_weight * s.columns[a][r]
                                     + (100 - season_weight) * f.columns[a][r],
                                   100)]]]

\* C23: compute_attribute_deltas, called after adjust_metrics, returns
\* 0.4 * season_delta + 0.6 * form_delta for every attribute of the map, the
\* one computed from the season view and the other from the form view.
C23_CombinedDelta ==
    (rating_matrix_log # None /\ LastDeltasCall > 0
       /\ rating_matrix_log.calls[LastDeltasCall] = "compute_attribute_deltas"
       /\ NormalizedBefore(LastDeltasCall)) =>
        /\ ~rating_matrix_log.result.raised
        /\ \E pre_ratings_df \in PreRatingsChoices :
               rating_matrix_log.result.value
                 = CombinedDelta(rating_matrix, pre_ratings_df, 40)

\* The attributes that the metrics the player has a value for lead to,
\* through the universal map and the map of the position.
MappedTargets(w) ==
    Targets(w, UniversalMetricMap) \cup Targets(w, PositionMetricMap(w.position))

\* C24: in the weekly update of a player with a mapped metric, every target
\* attribute is a field of the rating state, the update goes through, and
\* each target holds its pre-rating value moved by the sum of the deltas of
\* the present metrics mapped to it.
C24_MetricDeltasAccumulate ==
    (pc = "apply" /\ outcome # "new" /\ MappedTargets(wpr) # {}) =>
        /\ MappedTargets(wpr) \subseteq RatingFields
        /\ outcome = "returned"
        /\ \A a \in MappedTargets(wpr) :
               wpr.post_rating[a]
                 = NewValue(wpr.pre_rating[a],
                            CalculateAdjustments(wpr).value[a], a)

\* C25: after _apply_adjustments for a position with a weight table the
\* post-rating is stored and its overall rating is the weighted sum of the
\* new attribute values; the weights of every table sum to 1 (100
\* hundredths).
C25_OverallIsWeightedSum ==
    /\ \A position \in Positions :
           LET weights == PositionWeights(position)
           IN  DOMAIN weights # {}
                 => SumWeights(weights, DOMAIN weights) = 100
    /\ (pc = "adjust" /\ outcome # "new"
          /\ DOMAIN PositionWeights(wpr.position) # {}
          /\ DOMAIN adj_arg \subseteq RatingFields) =>
           /\ outcome = "returned"
           /\ "overallrating" \in DOMAIN wpr.post_rating
           /\ wpr.post_rating["overallrating"] * 100
                = WeightedSum(wpr.post_rating, PositionWeights(wpr.position),
                              DOMAIN PositionWeights(wpr.position))

\* The rows _simple_adjust_preseason_ratings gives an adjustment to.
Adjusted(p) ==
    /\ players_df[p].position_group = "quarterback"
    /\ players_df[p].is_rookie \in {"True", "False"}

\* C26: the week-1 adjustment adds the adjustment of a player to every
\* Madden feature and clips the sum to [0, 99]; with adjustment 0 a feature
\* that is within [0, 99] stays as it is.
C26_AdjustmentClippedTo0_99 ==
    (pc = "preseason" /\ returned_df # None) =>
        \A p \in DOMAIN players_df :
            (Adjusted(p) /\ MaddenAdjustment(players_df, p) # NaN) =>
                /\ p \in DOMAIN returned_df
                /\ \A f \in MADDEN_FEATURES :
                       returned_df[p].features[f]
                         = Clip(players_df[p].features[f]
                                  + MaddenAdjustment(players_df, p), 0, 9900)

\* Lines 291: the rows that are fit for adjustment.
FitForAdjustment(df, p) ==
    /\ df[p].position_group = "quarterback"
    /\ df[p].is_rookie = "False"
    /\ df[p].last_season_av # NaN

\* C27: for a returning non-rookie with the eligible feature the adjustment
\* is a defined number within [-3, 3] (hundredths: [-300, 300]) in every
\* cohort, those of one player or of identical values included.
C27_FitAdjustmentDefined ==
    (pc = "preseason" /\ returned_df # None) =>
        \A p \in DOMAIN players_df :
            FitForAdjustment(players_df, p) =>
                /\ MaddenAdjustment(players_df, p) # NaN
                /\ MaddenAdjustment(players_df, p) >= -300
                /\ MaddenAdjustment(players_df, p) <= 300
                /\ p \in DOMAIN returned_df
                /\ returned_df[p].features.awareness # NaN

\* C30: _simple_adjust_preseason_ratings returns exactly the quarterback
\* players it was given, none dropped and none added, whatever is_rookie and
\* last_season_av are, a missing is_rookie included.
C30_QuarterbacksPreserved ==
    (pc = "preseason" /\ returned_df # None) =>
        DOMAIN returned_df
          = {p \in DOMAIN players_df :
                 players_df[p].position_group = "quarterback"}

\* C28: needs_initialization() of a career record is true exactly when the
\* orchestrator classifies the player as never initialized (his
\* init_player_rating_state is None); the two tests never disagree.
C28_NeedsInitializationAgrees ==
    \A p \in Players :
        NeedsInitialization(career_player_ratings[p])
          <=> (career_player_ratings[p].init_player_rating_state = None)

-----------------------------------------------------------------------------
(* init_players: the rows that enter the initialization of new players. *)

\* The seasons the component was built for; extract() loads the tables of
\* these seasons only.
InitLoadSeasons == <<2015, 2020, 2021>>

\* The weeks the tables of this model hold rows for.
InitWeeks == {1, 2}

\* At most this many rows in db['player_states'].
MaxStateRows == 2

\* At most this many rows in db['off_weekly_player_stats'] and in
\* db['preseason_players'].
MaxStatRows == 1

\* A row of a weekly table is <<player_id, season, week>>, a row of the
\* preseason table <<player_id, season>>.
WeeklyCells ==
    {<<p, InitLoadSeasons[i], w>> :
        p \in Players, i \in 1..Len(InitLoadSeasons), w \in InitWeeks}

PreseasonCells ==
    {<<p, InitLoadSeasons[i]>> : p \in Players, i \in 1..Len(InitLoadSeasons)}

TablesUpTo(cells, n) == {t \in SUBSET cells : Cardinality(t) <= n}

\* range(max(1999, season - 5), season + 1), lines 266, 357 and 411.
LookbackSeasons(s) ==
    {x \in 1999..(s + 1) : x >= (IF s - 5 > 1999 THEN s - 5 ELSE 1999) /\ x < s + 1}

\* The row filter of lines 270-274 and of lines 414-417.
LookbackFilter(table, s, w) ==
    {r \in table :
        /\ r[2] \in LookbackSeasons(s)
        /\ (r[2] < s \/ (r[2] = s /\ r[3] <= w))}

\* Lines 283-284.
InitGroup(player_states_df, list, s, w) ==
    {r \in player_states_df : r[2] = s /\ r[3] = w /\ r[1] \in list}

\* Lines 286-287.
ImputeGroup(player_states_df, init_group) ==
    {r \in player_states_df \ init_group : r[3] = 1}

\* Lines 358-361 and 369-381: a row of impute_group keeps a
\* baseoverallrating if the preseason table holds a row of the player within
\* the lookback seasons and not after the season of the row.
HasPreseason(preseason_players, r, s) ==
    \E q \in preseason_players :
        q[1] = r[1] /\ q[2] \in LookbackSeasons(s) /\ q[2] <= r[2]

\* Lines 419-423: the rows of off_weekly_stats that the two left merges on
\* player_id, season and week attach to a row of the groups.
MergedStats(off_weekly_stats, groups) == off_weekly_stats \cap groups

\* Line 386.
PGroup(combined_data, init_group, s, w) ==
    {r \in combined_data :
        r[2] = s /\ r[3] = w /\ r[1] \in {x[1] : x \in init_group}}

InitInit ==
    /\ load_seasons = InitLoadSeasons
    /\ career_player_ratings = [p \in Players |-> NewCareerPlayerRating(p)]
    /\ player_states \in TablesUpTo(WeeklyCells, MaxStateRows)
    /\ read_weeks = {}
    /\ pc = "init_players"
    /\ raised = ""
    /\ season_idx \in 1..Len(InitLoadSeasons)
    /\ week \in InitWeeks
    /\ player_id_list = ActiveIn(Season, week)
    /\ init_players_list \in SUBSET player_id_list
    /\ init_players_list # {}
    /\ regress_players_list = {}
    /\ pre_rating = [p \in Players |-> None]
    /\ processed = <<>>
    /\ init_count = [p \in Players |-> 0]
    /\ regress_invoked = {}
    /\ last_active = [p \in Players |-> None]
    /\ observed = None
    /\ last_appended = [p \in Players |-> None]
    /\ wpr = None
    /\ outcome = "new"
    /\ adj_arg = None
    /\ rating_matrix = None
    /\ rating_matrix_log = None
    /\ players_df = None
    /\ returned_df = None
    /\ off_weekly_player_stats \in TablesUpTo(WeeklyCells, MaxStatRows)
    /\ \E preseason_players \in TablesUpTo(PreseasonCells, MaxStatRows) :
       \E as_script \in BOOLEAN :
         init_frames = [stage |-> "call",
                        preseason_players |-> preseason_players,
                        as_script |-> as_script,
                        player_states_df |-> {},
                        init_group |-> {},
                        impute_group |-> {},
                        season |-> Season,
                        off_weekly_stats |-> {},
                        merged |-> {},
                        p_group |-> {}]

InitUnchanged ==
    UNCHANGED <<load_seasons, player_states, read_weeks, pc, season_idx, week,
                player_id_list, init_players_list, regress_players_list,
                pre_rating, processed, regress_invoked, last_active,
                off_weekly_player_stats, career_vars, apply_vars, matrix_vars,
                transform_vars>>

\* Lines 263-287: the lookback filter of the player states and the two
\* groups.
InitPlayersGroups ==
    /\ pc = "init_players"
    /\ init_frames.stage = "call"
    /\ LET player_states_df == LookbackFilter(player_states, Season, week)
           init_group == InitGroup(player_states_df, init_players_list,
                                   Season, week)
       IN  init_frames' =
             [init_frames EXCEPT
                !.player_states_df = player_states_df,
                !.init_group = init_group,
                !.impute_group = ImputeGroup(player_states_df, init_group),
                !.stage = IF init_group = {} THEN "returned"
                          ELSE "position_group"]
    /\ UNCHANGED <<career_player_ratings, init_count, raised>>
    /\ InitUnchanged

\* Lines 356-381 of init_position_group.  Line 358 reads the module global
\* player_rating_component, bound only when rating.py runs as a script.  The
\* loop of line 370 rebinds the parameter season to each season of
\* impute_group in the order of the rows, which the loader of the table
\* decides: after the loop season is one of these seasons.  pd.concat of no
\* frame raises ValueError.
InitPositionGroup ==
    /\ pc = "init_players"
    /\ init_frames.stage = "position_group"
    /\ IF ~init_frames.as_script
       THEN /\ init_frames' = [init_frames EXCEPT !.stage = "raised"]
            /\ raised' = "NameError"
       ELSE IF init_frames.impute_group = {}
       THEN /\ init_frames' = [init_frames EXCEPT !.stage = "raised"]
            /\ raised' = "ValueError"
       ELSE /\ \E last \in {r[2] : r \in init_frames.impute_group} :
                 init_frames' =
                   [init_frames EXCEPT
                      !.season = last,
                      !.impute_group =
                          {r \in init_frames.impute_group :
                              HasPreseason(init_frames.preseason_players, r,
                                           Season)},
                      !.stage = "quarterbacks"]
            /\ UNCHANGED raised
    /\ UNCHANGED <<career_player_ratings, init_count>>
    /\ InitUnchanged

\* Lines 389-426 of _init_quarterbacks_group, called at line 383 with the
\* season the loop left.
InitQuarterbacksGroup ==
    /\ pc = "init_players"
    /\ init_frames.stage = "quarterbacks"
    /\ LET off_weekly_stats ==
               LookbackFilter(off_weekly_player_stats, init_frames.season, week)
       IN  init_frames' =
             [init_frames EXCEPT
                !.off_weekly_stats = off_weekly_stats,
                !.merged = MergedStats(off_weekly_stats,
                               init_frames.init_group
                                 \cup init_frames.impute_group),
                !.stage = "impute"]
    /\ UNCHANGED <<career_player_ratings, init_count, raised>>
    /\ InitUnchanged

\* Lines 384-387 and 297-354: the imputed rows of the initialized players
\* become their states.
InitAssignStates ==
    /\ pc = "init_players"
    /\ init_frames.stage = "impute"
    /\ LET p_group == PGroup(init_frames.init_group
                               \cup init_frames.impute_group,
                             init_frames.init_group, init_frames.season, week)
           ids == {r[1] : r \in p_group}
       IN  \E rows \in [ids -> ImputedRows] :
             /\ career_player_ratings' =
                  [p \in Players |->
                     IF p \in ids
                     THEN InitPlayersAssign(career_player_ratings[p],
                              InitPlayerRatingState(p, rows[p]), Season, week)
                     ELSE career_player_ratings[p]]
             /\ init_count' =
                  [p \in Players |->
                     IF p \in ids THEN init_count[p] + 1 ELSE init_count[p]]
             /\ init_frames' = [init_frames EXCEPT !.p_group = p_group,
                                                   !.stage = "returned"]
    /\ UNCHANGED raised
    /\ InitUnchanged

NextInit ==
    \/ InitPlayersGroups
    \/ InitPositionGroup
    \/ InitQuarterbacksGroup
    \/ InitAssignStates

SpecInit == InitInit /\ [][NextInit]_vars

\* A row of season s and week w is inside the lookback window of the
\* initialization at (season, week).
InWindow(r, s, w) ==
    /\ r[2] >= (IF s - 5 > 1999 THEN s - 5 ELSE 1999)
    /\ r[2] <= s
    /\ (r[2] = s => r[3] <= w)

\* C29: the initialization at (season, week) uses no look-ahead: every
\* player-state row and every performance-stat row that enters init_players
\* and _init_quarterbacks_group has a season within
\* max(1999, season - 5)..season and, in the season itself, a week up to
\* week.
C29_NoLookAhead ==
    (pc = "init_players" /\ init_frames.stage \in {"impute", "returned"}) =>
        \A r \in init_frames.player_states_df \cup init_frames.init_group
                   \cup init_frames.impute_group
                   \cup init_frames.off_weekly_stats :
            InWindow(r, Season, week)

====
